---- MODULE Spec2Model ----
(***************************************************************************)
(* Model of backend/main.py: a FastAPI service that forwards chat turns to *)
(* a hosted LLM and keeps every user message in one process-wide vector    *)
(* collection ("memory").                                                  *)
(*                                                                         *)
(* The handlers are coroutines on a single event loop.  The only await in  *)
(* the file is the LLM completion (line 59); every collection call         *)
(* (query, get, count, add) is a synchronous call, so a handler runs       *)
(* without interruption except at that one await.  Each action below is    *)
(* one such uninterrupted run.                                             *)
(*                                                                         *)
(* Environment.  The vector index is used through its contract: query      *)
(* returns the records matching the filter, nearest first, at most         *)
(* n_results of them; get returns all records matching the filter; count   *)
(* is the number of records; add appends one record.  Distances come from  *)
(* the embedding provider and are unconstrained: every assignment of       *)
(* distances to the matching records, and every order among equal          *)
(* distances, is a possible answer.  Index calls are taken to answer; the  *)
(* LLM call may answer, raise, or never return.                            *)
(*                                                                         *)
(* response and outbound record what the last handler step produced; the   *)
(* step Respond hands them over and clears them before the loop runs the   *)
(* next handler step.                                                      *)
(***************************************************************************)
EXTENDS Integers, Sequences, FiniteSets, TLC

VARIABLES
    collection,   \* the records of the "memory" collection, in insertion order
    task,         \* the /chat coroutines suspended at the LLM await: how many
                  \* there are of each (user_id, user_message, overtaken)
    response,     \* what the step just taken returned to its HTTP client
    outbound,     \* the external similarity/LLM call the step just taken issued
    acked         \* history: the (user_id, message) of every /chat answered 200

vars == <<collection, task, response, outbound, acked>>

------------------------------------------------------------------------------
(* Input domains and bounds *)

Users == {"a", "a_1", "b"}
Texts == {"hello", "hi there"}
\* the bodies POST /chat is called with
ChatRequests ==
    {[user_id |-> "a", message |-> "hello"],
     [user_id |-> "a", message |-> "hi there"],
     [user_id |-> "a_1", message |-> "hello"],
     [user_id |-> "b", message |-> "hi there"]}
Replies == {"tell me more"}
\* distances the index reports (only their order matters)
Dists == {0, 1}
\* distances in the match lists handed to the aggregation when checked alone
DistsAgg == {0, 1, 2}
\* the /chat requests that can be in flight at once
Slots == {1, 2}

\* a suspended /chat coroutine: its locals, and whether another request of the
\* same user has added its record since this one suspended
Coroutines ==
    {[user_id |-> c.user_id, user_message |-> c.message, overtaken |-> o] :
        c \in ChatRequests, o \in BOOLEAN}

\* most records the collection holds
MaxCount == 3
\* n_results of the chat query (10 in the source), scaled to the store bound
N_RESULTS_CHAT == 2
\* n_results of the similarity query (50 in the source), scaled likewise
N_RESULTS_SIMILAR == 2
\* longest match list handed to the aggregation when it is checked alone
MaxMatches == 3

MODEL_PROMPT ==
    "\nYou are a relationship coach. \n"
    \o "Ask me deep situation and interest-based questions to evaluate my personality so that I can be matched to others in the future and make me tell it with an example or story.\n"
    \o "As I answer, use my previous answers to ask more meaningful and deep questions, provoking a thoughtful response from me.\n"
    \o "Ask questions that make me reveal what my values are.\n"

NoResponse == [kind |-> "none"]
NoCall == [kind |-> "none"]

------------------------------------------------------------------------------
(* Sequence helpers *)

Min(a, b) == IF a <= b THEN a ELSE b

RECURSIVE Perms(_)
Perms(S) ==
    IF S = {} THEN {<<>>}
    ELSE UNION {{<<x>> \o p : p \in Perms(S \ {x})} : x \in S}

RECURSIVE SeqsUpTo(_, _)
SeqsUpTo(S, n) ==
    IF n = 0 THEN {<<>>}
    ELSE LET shorter == SeqsUpTo(S, n - 1)
         IN shorter \cup {Append(s, x) : s \in {t \in shorter : Len(t) = n - 1}, x \in S}

------------------------------------------------------------------------------
(* The collection *)

Count == Len(collection)

\* variant: the id leaves the count out
FormatId_NoCount(user_id, count) == "user_message_" \o user_id

\* f"user_message_{user_id}_{collection.count()}"
FormatId(user_id, count) == "user_message_" \o user_id \o "_" \o ToString(count)

\* variant: the add replaces what was stored
Add_Replace(document, id, user_id) ==
    <<[id |-> id, document |-> document, user_id |-> user_id]>>

\* collection.add(documents=[..], ids=[..], metadatas=[{"user_id": ..}])
Add(document, id, user_id) ==
    Append(collection, [id |-> id, document |-> document, user_id |-> user_id])

Matching(allowed) == {i \in 1..Len(collection) : collection[i].user_id \in allowed}

\* every nearest-first ranking of the matching records
Rankings(allowed) ==
    LET I == Matching(allowed)
    IN {[j \in 1..Len(p) |-> [id |-> collection[p[j]].id,
                               document |-> collection[p[j]].document,
                               user_id |-> collection[p[j]].user_id,
                               distance |-> d[p[j]]]] :
          <<p, d>> \in {pd \in Perms(I) \X [I -> Dists] :
                          \A j \in 1..(Len(pd[1]) - 1) :
                              pd[2][pd[1][j]] <= pd[2][pd[1][j + 1]]}}

Query(allowed, n_results) ==
    {SubSeq(r, 1, Min(n_results, Len(r))) : r \in Rankings(allowed)}

\* get: the matching records' documents, in insertion order
Get(user_id) ==
    LET I == Matching({user_id})
        RECURSIVE Docs(_)
        Docs(i) == IF i > Len(collection) THEN <<>>
                   ELSE IF i \in I THEN <<collection[i].document>> \o Docs(i + 1)
                   ELSE Docs(i + 1)
    IN Docs(1)

------------------------------------------------------------------------------
(* chat(): context builder *)

\* variant: the chat query is not filtered
OwnFilter_None(user_id) == Users

\* where={"user_id": user_id}
OwnFilter(user_id) == {user_id}

Documents(results) == [j \in 1..Len(results) |-> results[j].document]

Messages(previous_messages, user_message) ==
    <<[role |-> "system", content |-> MODEL_PROMPT]>>
    \o [j \in 1..Len(previous_messages) |->
            [role |-> "user", content |-> previous_messages[j]]]
    \o <<[role |-> "user", content |-> user_message]>>

------------------------------------------------------------------------------
(* get_most_similar(): aggregation *)

\* variant: the empty check is missing
NoMessages_Never(documents) == FALSE

\* if not user_messages['documents']
NoMessages(documents) == Len(documents) = 0

RECURSIVE Join(_)
Join(documents) ==
    IF Len(documents) = 0 THEN ""
    ELSE IF Len(documents) = 1 THEN documents[1]
    ELSE documents[1] \o " " \o Join(Tail(documents))

\* variant: the similarity query is not filtered
OtherFilter_None(user_id) == Users

\* where={"user_id": {"$ne": user_id}}
OtherFilter(user_id) == Users \ {user_id}

\* variant: a later match always overwrites the recorded distance
KeepBest_KeepLast(similar_users, match) ==
    LET at == {i \in 1..Len(similar_users) : similar_users[i].user_id = match.user_id}
    IN IF at = {}
       THEN Append(similar_users, [user_id |-> match.user_id, distance |-> match.distance])
       ELSE LET i == CHOOSE i \in at : TRUE
            IN [similar_users EXCEPT ![i].distance = match.distance]

\* one iteration of the loop over zip(metadatas, distances); similar_users is
\* a dict, kept here as the sequence of its items in insertion order
KeepBest(similar_users, match) ==
    LET at == {i \in 1..Len(similar_users) : similar_users[i].user_id = match.user_id}
    IN IF at = {}
       THEN Append(similar_users, [user_id |-> match.user_id, distance |-> match.distance])
       ELSE LET i == CHOOSE i \in at : TRUE
            IN IF match.distance < similar_users[i].distance
               THEN [similar_users EXCEPT ![i].distance = match.distance]
               ELSE similar_users

RECURSIVE SimilarUsers(_)
SimilarUsers(results) ==
    IF Len(results) = 0 THEN <<>>
    ELSE KeepBest(SimilarUsers(SubSeq(results, 1, Len(results) - 1)),
                  results[Len(results)])

\* variant: a sort that puts an item before the earlier items it ties with
InsertSorted_BeforeTies(sorted, item) ==
    LET k == Cardinality({i \in 1..Len(sorted) : sorted[i].distance < item.distance})
    IN SubSeq(sorted, 1, k) \o <<item>> \o SubSeq(sorted, k + 1, Len(sorted))

\* sorted(items, key=distance) is stable: an item goes after the items that
\* came before it and are not farther
InsertSorted(sorted, item) ==
    LET k == Cardinality({i \in 1..Len(sorted) : sorted[i].distance <= item.distance})
    IN SubSeq(sorted, 1, k) \o <<item>> \o SubSeq(sorted, k + 1, Len(sorted))

RECURSIVE Sorted(_)
Sorted(items) ==
    IF Len(items) = 0 THEN <<>>
    ELSE InsertSorted(Sorted(SubSeq(items, 1, Len(items) - 1)), items[Len(items)])

\* variant: the emptiness test is off by one
MostSimilar_NeedsTwo(results) ==
    LET sorted_similar_users == Sorted(SimilarUsers(results))
    IN IF Len(sorted_similar_users) > 1
       THEN [most_similar_user |-> sorted_similar_users[1].user_id]
       ELSE [message |-> "No similar users found"]

MostSimilar(results) ==
    LET sorted_similar_users == Sorted(SimilarUsers(results))
    IN IF Len(sorted_similar_users) > 0
       THEN [most_similar_user |-> sorted_similar_users[1].user_id]
       ELSE [message |-> "No similar users found"]

\* include=['metadatas', 'distances']
Matches(results) ==
    [j \in 1..Len(results) |->
        [user_id |-> results[j].user_id, distance |-> results[j].distance]]

------------------------------------------------------------------------------
(* Initial state: module load, lines 30-32 *)

Init ==
    /\ collection = <<>>
    /\ task = [c \in Coroutines |-> 0]
    /\ response = NoResponse
    /\ outbound = NoCall
    /\ acked = {}

------------------------------------------------------------------------------
(* The event loop *)

InFlight == {c \in Coroutines : task[c] > 0}

RECURSIVE Sum(_, _)
Sum(f, S) == IF S = {} THEN 0
             ELSE LET x == CHOOSE x \in S : TRUE IN f[x] + Sum(f, S \ {x})

NInFlight == Sum(task, Coroutines)

\* the loop is between handler steps: nothing is waiting to be handed over
Ready == response = NoResponse /\ outbound = NoCall

Resume(c) == [task EXCEPT ![c] = @ - 1]

\* the coroutines left suspended once c has added its record
Overtake(c) ==
    LET t == Resume(c)
    IN [x \in Coroutines |->
          IF x.user_id # c.user_id THEN t[x]
          ELSE IF x.overtaken THEN t[x] + t[[x EXCEPT !.overtaken = FALSE]]
          ELSE 0]

Respond ==
    /\ ~Ready
    /\ response' = NoResponse
    /\ outbound' = NoCall
    /\ UNCHANGED <<collection, task, acked>>

------------------------------------------------------------------------------
(* Handlers *)

ReadRoot ==
    /\ Ready
    /\ response' = [kind |-> "reply", route |-> "/", status |-> 200,
                    body |-> [message |-> "Hello, FastAPI!!!!"]]
    /\ outbound' = NoCall
    /\ UNCHANGED <<collection, task, acked>>

GetUserMessages(user_id) ==
    /\ Ready
    /\ response' = [kind |-> "reply", route |-> "/user_messages", status |-> 200,
                    user_id |-> user_id,
                    body |-> [user_id |-> user_id, messages |-> Get(user_id)]]
    /\ outbound' = NoCall
    /\ UNCHANGED <<collection, task, acked>>

GetMostSimilar(user_id) ==
    /\ Ready
    /\ LET documents == Get(user_id)
       IN IF NoMessages(documents)
          THEN /\ response' = [kind |-> "reply", route |-> "/getMostSimilar",
                               status |-> 200, user_id |-> user_id,
                               body |-> [message |-> "No messages found for this user"]]
               /\ outbound' = NoCall
          ELSE \E results \in Query(OtherFilter(user_id), N_RESULTS_SIMILAR) :
                  /\ outbound' = [kind |-> "query", user_id |-> user_id,
                                  query_text |-> Join(documents),
                                  results |-> Matches(results)]
                  /\ response' = [kind |-> "reply", route |-> "/getMostSimilar",
                                  status |-> 200, user_id |-> user_id,
                                  body |-> MostSimilar(Matches(results))]
    /\ UNCHANGED <<collection, task, acked>>

\* variant: the size as it was before a concurrent writer of the same user added
MintCount_Stale(c) == IF c.overtaken THEN Count - 1 ELSE Count

\* collection.count() as the resumed coroutine c evaluates it, in the call to add
MintCount(c) == Count

\* variant: the message is stored before the completion is awaited
ChatStart_Persists(user_id, user_message) ==
    /\ Ready
    /\ NInFlight < Cardinality(Slots)
    /\ Count < MaxCount
    /\ \E results \in Query(OwnFilter(user_id), N_RESULTS_CHAT) :
          outbound' = [kind |-> "llm", user_id |-> user_id,
                       user_message |-> user_message,
                       results |-> results,
                       messages |-> Messages(Documents(results), user_message)]
    /\ task' = [task EXCEPT ![[user_id |-> user_id, user_message |-> user_message,
                               overtaken |-> FALSE]] = @ + 1]
    /\ response' = NoResponse
    /\ collection' = Add(user_message, FormatId(user_id, Count), user_id)
    /\ UNCHANGED acked

\* process_chat up to the await inside chat()
ChatStart(user_id, user_message) ==
    /\ Ready
    /\ NInFlight < Cardinality(Slots)
    /\ \E results \in Query(OwnFilter(user_id), N_RESULTS_CHAT) :
          outbound' = [kind |-> "llm", user_id |-> user_id,
                       user_message |-> user_message,
                       results |-> results,
                       messages |-> Messages(Documents(results), user_message)]
    /\ task' = [task EXCEPT ![[user_id |-> user_id, user_message |-> user_message,
                               overtaken |-> FALSE]] = @ + 1]
    /\ response' = NoResponse
    /\ UNCHANGED <<collection, acked>>

\* the completion returns: process_chat from the await to its return
ChatComplete(c) ==
    /\ Ready
    /\ task[c] > 0
    /\ Count < MaxCount
    /\ \E llm_response \in Replies :
          response' = [kind |-> "reply", route |-> "/chat", status |-> 200,
                       user_id |-> c.user_id,
                       body |-> [user_id |-> c.user_id,
                                 user_message |-> c.user_message,
                                 llm_response |-> llm_response]]
    /\ collection' = Add(c.user_message, FormatId(c.user_id, MintCount(c)), c.user_id)
    /\ task' = Overtake(c)
    /\ outbound' = NoCall
    /\ acked' = acked \cup {[user_id |-> c.user_id, message |-> c.user_message]}

\* the completion raises: the exception leaves process_chat uncaught
ChatFail(c) ==
    /\ Ready
    /\ task[c] > 0
    /\ response' = [kind |-> "reply", route |-> "/chat", status |-> 500,
                    user_id |-> c.user_id, body |-> [detail |-> "Internal Server Error"]]
    /\ task' = Resume(c)
    /\ outbound' = NoCall
    /\ UNCHANGED <<collection, acked>>

Next ==
    \/ ReadRoot
    \/ \E user_id \in Users : GetUserMessages(user_id)
    \/ \E user_id \in Users : GetMostSimilar(user_id)
    \/ \E r \in ChatRequests : ChatStart(r.user_id, r.message)
    \/ \E c \in Coroutines : ChatComplete(c)
    \/ \E c \in Coroutines : ChatFail(c)
    \/ Respond

Spec == Init /\ [][Next]_vars

------------------------------------------------------------------------------
(* The aggregation of get_most_similar on its own: every match list of at  *)
(* most MaxMatches entries, in any order, is handed to lines 98-112.       *)

InitAgg ==
    /\ collection = <<>>
    /\ task = [c \in Coroutines |-> 0]
    /\ response = NoResponse
    /\ acked = {}
    /\ \E user_id \in Users :
       \E results \in SeqsUpTo([user_id : OtherFilter(user_id), distance : DistsAgg],
                               MaxMatches) :
          outbound = [kind |-> "query", user_id |-> user_id,
                      query_text |-> "hello", results |-> results]

Aggregate ==
    /\ outbound.kind = "query"
    /\ response = NoResponse
    /\ response' = [kind |-> "reply", route |-> "/getMostSimilar", status |-> 200,
                    user_id |-> outbound.user_id,
                    body |-> MostSimilar(outbound.results)]
    /\ UNCHANGED <<collection, task, outbound, acked>>

NextAgg == Aggregate

SpecAgg == InitAgg /\ [][NextAgg]_vars

------------------------------------------------------------------------------
(* Properties *)

Range(seq) == {seq[j] : j \in 1..Len(seq)}

Owned(user_id) == Matching({user_id})

IsReply(route) == response.kind = "reply" /\ response.route = route

Returned == IsReply("/getMostSimilar") /\ "most_similar_user" \in DOMAIN response.body

\* C1: every record's id is "user_message_{user_id}_{count}" with count the
\* number of records that were in the collection when it was added, and no two
\* records of the collection have the same id.
C1_IdsUnique ==
    /\ \A i \in 1..Count :
          collection[i].id =
              "user_message_" \o collection[i].user_id \o "_" \o ToString(i - 1)
    /\ \A i, j \in 1..Count : i # j => collection[i].id # collection[j].id

C1_Witness ==
    /\ NInFlight = 0
    /\ \E i, j \in 1..Count : i < j /\ collection[i].user_id = collection[j].user_id

\* a step in which a /chat coroutine resumes and adds its record although a
\* concurrent request of the same user added one while it was suspended
OvertakenCompletes(c) ==
    /\ c.overtaken
    /\ task[c] > 0
    /\ task' = Overtake(c)
    /\ Len(collection') = Count + 1

\* C2 (as amended): a /chat request that resumes after a concurrent request
\* of the same user has added its record mints an id that no record of the
\* collection carries: the size is read in the same uninterrupted run as the
\* add, so concurrent writers never produce a duplicate id.
C2_ConcurrentWritersMintFreshIds ==
    [][\A c \in Coroutines :
          OvertakenCompletes(c) =>
              \A i \in 1..Count : collection[i].id # collection'[Count + 1].id]_vars

C2_Witness ==
    /\ response.kind = "reply" /\ response.route = "/chat" /\ response.status = 200
    /\ \E c \in InFlight : c.overtaken /\ c.user_id = response.user_id

\* C2 (as claimed): a /chat request that resumes after a concurrent request of
\* the same user has added its record mints an id already in the collection.
C2_ConcurrentWritersCollide ==
    [][\A c \in Coroutines :
          OvertakenCompletes(c) =>
              \E i \in 1..Count : collection[i].id = collection'[Count + 1].id]_vars

\* C3: GET /user_messages/u returns every message of u whose /chat request
\* was answered 200 before, whatever happened in between.
C3_AckedMessagesReturned ==
    IsReply("/user_messages") =>
        \A a \in acked :
            a.user_id = response.user_id => a.message \in Range(response.body.messages)

C3_Witness ==
    /\ IsReply("/user_messages")
    /\ Cardinality({a \in acked : a.user_id = response.user_id}) = 2
    /\ \E a \in acked : a.user_id # response.user_id
    /\ NInFlight > 0

\* C4: a most_similar_user returned by GET /getMostSimilar/u is not u and owns
\* at least one record of the collection.
C4_SimilarUserIsAnotherOwner ==
    Returned =>
        /\ response.body.most_similar_user # response.user_id
        /\ Owned(response.body.most_similar_user) # {}

C4_Witness ==
    /\ Returned
    /\ Len(outbound.results) = 2
    /\ outbound.results[1].user_id # outbound.results[2].user_id

\* C5: the user GET /getMostSimilar returns owns a match whose distance is the
\* smallest of all returned matches: users are ranked by the lowest of their
\* distances only.
C5_ReturnsUserOfNearestMatch ==
    Returned =>
        \E j \in 1..Len(outbound.results) :
            /\ outbound.results[j].user_id = response.body.most_similar_user
            /\ \A k \in 1..Len(outbound.results) :
                  outbound.results[j].distance <= outbound.results[k].distance

C5_Witness ==
    /\ Returned
    /\ \E j, k, l \in 1..Len(outbound.results) :
          /\ j < k
          /\ outbound.results[j].user_id = response.body.most_similar_user
          /\ outbound.results[k].user_id = response.body.most_similar_user
          /\ outbound.results[l].user_id # response.body.most_similar_user
          /\ outbound.results[k].distance < outbound.results[l].distance
          /\ outbound.results[l].distance < outbound.results[j].distance

\* C6: GET /getMostSimilar/u for a user that owns no record answers "No
\* messages found for this user" with status 200 and issues no similarity query.
C6_NoMessagesNoQuery ==
    (IsReply("/getMostSimilar") /\ Owned(response.user_id) = {}) =>
        /\ response.body = [message |-> "No messages found for this user"]
        /\ response.status = 200
        /\ outbound = NoCall

C6_Witness ==
    /\ IsReply("/getMostSimilar")
    /\ Owned(response.user_id) = {}
    /\ Count > 0

\* C7: GET /getMostSimilar/u for a user that owns a record answers "No similar
\* users found" when no record belongs to another user, and a
\* most_similar_user when one does.
C7_NoSimilarUsersIffAlone ==
    (IsReply("/getMostSimilar") /\ Owned(response.user_id) # {}) =>
        IF Owned(response.user_id) = 1..Count
        THEN response.body = [message |-> "No similar users found"]
        ELSE "most_similar_user" \in DOMAIN response.body

C7_Witness ==
    /\ IsReply("/getMostSimilar")
    /\ Count > 1
    /\ Owned(response.user_id) = 1..Count
    /\ outbound.kind = "query"

\* C8: the turn list handed to the LLM is the system instruction, then the
\* documents of at most N_RESULTS_CHAT records of the collection that all
\* belong to the requesting user, in the order the index returned them
\* (nearest first), then the new message; with no record of that user it is
\* the system instruction and the new message.
C8_TurnList ==
    outbound.kind = "llm" =>
        LET r == outbound.results
            ms == outbound.messages
            own == Owned(outbound.user_id)
        IN /\ Len(r) = Min(N_RESULTS_CHAT, Cardinality(own))
           /\ Len(ms) = Len(r) + 2
           /\ ms[1] = [role |-> "system", content |-> MODEL_PROMPT]
           /\ ms[Len(ms)] = [role |-> "user", content |-> outbound.user_message]
           /\ \A j \in 1..Len(r) :
                 /\ ms[j + 1] = [role |-> "user", content |-> r[j].document]
                 /\ r[j].user_id = outbound.user_id
                 /\ \E i \in own : collection[i].id = r[j].id
                                    /\ collection[i].document = r[j].document
           /\ \A j, k \in 1..Len(r) :
                 j < k => r[j].distance <= r[k].distance /\ r[j].id # r[k].id
           /\ own = {} =>
                 ms = <<[role |-> "system", content |-> MODEL_PROMPT],
                        [role |-> "user", content |-> outbound.user_message]>>

C8_Witness ==
    /\ outbound.kind = "llm"
    /\ Len(outbound.results) = 2
    /\ Owned(outbound.user_id) # 1..Count
    /\ outbound.results[1].distance < outbound.results[2].distance
    /\ \E i, j \in 1..Count :
          /\ i < j
          /\ collection[j].id = outbound.results[1].id
          /\ collection[i].id = outbound.results[2].id

\* C9: the collection changes only in the step in which a suspended /chat
\* request gets its completion back; that step adds exactly one record, the
\* request's message under the request's user_id, and answers 200; the reply
\* is not stored; a request whose completion raises, and a request still
\* waiting for it, leave the collection as it was.
C9_PersistAfterCompletion ==
    [][/\ collection' # collection =>
             \E c \in InFlight :
                 /\ task' = Overtake(c)
                 /\ Len(collection') = Count + 1
                 /\ SubSeq(collection', 1, Count) = collection
                 /\ collection'[Count + 1].document = c.user_message
                 /\ collection'[Count + 1].user_id = c.user_id
                 /\ collection'[Count + 1].document \notin Replies
                 /\ response'.kind = "reply" /\ response'.route = "/chat"
                 /\ response'.status = 200
                 /\ response'.body.user_message = c.user_message
                 /\ response'.body.llm_response \in Replies
       /\ (response'.kind = "reply" /\ response'.route = "/chat") =>
             IF response'.status = 200
             THEN Len(collection') = Count + 1
             ELSE collection' = collection
       /\ outbound'.kind = "llm" => collection' = collection]_vars

C9_Witness ==
    /\ response.kind = "reply" /\ response.route = "/chat" /\ response.status = 200
    /\ collection[Count].document = response.body.user_message
    /\ NInFlight > 0

\* the lowest distance at which user_id appears in results
MinDistance(results, user_id) ==
    CHOOSE d \in DistsAgg :
        /\ \E j \in 1..Len(results) :
              results[j].user_id = user_id /\ results[j].distance = d
        /\ \A j \in 1..Len(results) :
              results[j].user_id = user_id => d <= results[j].distance

FirstAt(results, user_id) ==
    CHOOSE j \in 1..Len(results) :
        /\ results[j].user_id = user_id
        /\ \A k \in 1..(j - 1) : results[k].user_id # user_id

\* the candidate users whose lowest distance is the lowest of all
Closest(results) ==
    {u \in {results[j].user_id : j \in 1..Len(results)} :
        \A k \in 1..Len(results) : MinDistance(results, u) <= results[k].distance}

\* C10: among the candidate users that share the smallest lowest distance,
\* GET /getMostSimilar returns the one whose first match comes first in the
\* result order, wherever its closest match comes.
C10_TieGoesToFirstEncountered ==
    Returned =>
        /\ response.body.most_similar_user \in Closest(outbound.results)
        /\ \A v \in Closest(outbound.results) :
              FirstAt(outbound.results, response.body.most_similar_user)
                  <= FirstAt(outbound.results, v)

C10_Witness ==
    /\ Returned
    /\ \E v \in Closest(outbound.results) : v # response.body.most_similar_user
    /\ LET w == response.body.most_similar_user
           r == outbound.results
       IN /\ r[FirstAt(r, w)].distance > MinDistance(r, w)
          /\ \E j \in 1..Len(r) :
                /\ r[j].user_id # w
                /\ r[j].distance = MinDistance(r, w)
                /\ \A k \in 1..j : r[k].user_id = w => r[k].distance > r[j].distance

====
